---- MODULE Spec2Model ----
(***************************************************************************)
(* Subject of persistence (src/src/persistence/Subject.ts): the desired    *)
(* entity, the database entity, the eligibility flags, the computed deltas *)
(* (diffColumns, diffRelations) and validate().                            *)
(***************************************************************************)
EXTENDS Integers, Sequences, FiniteSets, TLC

VARIABLES metadata, persistEntity, databaseEntity,
          canBeInserted, canBeUpdated, mustBeRemoved,
          diffColumns, diffRelations,
          relationUpdates, junctionInserts, junctionRemoves,
          newlyGeneratedId, parentGeneratedId, treeLevel,
          lastOp, thrown

\* the public properties the persistence executor fills in
pending == <<relationUpdates, junctionInserts, junctionRemoves,
             newlyGeneratedId, parentGeneratedId, treeLevel>>

vars == <<metadata, persistEntity, databaseEntity,
          canBeInserted, canBeUpdated, mustBeRemoved,
          diffColumns, diffRelations, pending, lastOp, thrown>>

\* ---------------------------------------------------------------------------
\* Bounds
\* ---------------------------------------------------------------------------

\* payloads of the values an entity property can hold are 1..MaxVal
MaxVal == 2

Payloads == 1..MaxVal

\* ---------------------------------------------------------------------------
\* JavaScript values.  k is the type or class, site is where an object was
\* allocated ("" for primitives), tag is the format of a string or the
\* primary-key shape of a related entity, v is the content.
\* Two records are the same JavaScript value (===) exactly when they are
\* equal: objects allocated on different sites are different references.
\* ---------------------------------------------------------------------------

Val(k, site, tag, v) == [k |-> k, site |-> site, tag |-> tag, v |-> v]

Undefined == Val("undefined", "", "", 0)

Null == Val("null", "", "", 0)

Num(n) == Val("number", "", "", n)

Str(fmt, n) == Val("string", "", fmt, n)

DateObj(site, n) == Val("Date", site, "", n)

ArrayObj(site, n) == Val("Array", site, "", n)

PlainObj(site, n) == Val("Object", site, "", n)

\* the nested object of an embedded property
Embedded(site) == Val("Object", site, "embedded", 0)

\* a related entity object; pk is "single", "composite" or "new" (no id yet)
RelatedEntity(pk, n) == Val("Entity", "entity", pk, n)

\* a composite identifier: a map of primary column names to values
IdMap(site, n) == Val("IdMap", site, "", n)

\* x === y
StrictEq(x, y) == x = y

\* x instanceof Object
InstanceOfObject(x) == x.k \in {"Date", "Array", "Object", "Entity", "IdMap"}

\* x is neither null nor undefined
IsSet(x) == x.k \notin {"undefined", "null"}

\* equality of content, whatever the reference
SameValue(x, y) == x.k = y.k /\ x.tag = y.tag /\ x.v = y.v

\* an entity object (ObjectLiteral): props maps <<container, property>> to a
\* value, the container being "" for the properties of the entity itself
Entity(props) == [k |-> "Object", props |-> props]

\* no entity given (undefined)
Absent == [k |-> "undefined"]

\* !!entity
Truthy(entity) == entity.k \notin {"undefined", "null"}

\* entity[property], and entity[container][property]
Prop(entity, container, property) ==
    IF <<container, property>> \in DOMAIN entity.props
    THEN entity.props[<<container, property>>]
    ELSE Undefined

\* ---------------------------------------------------------------------------
\* Metadata
\* ---------------------------------------------------------------------------

ColumnTypes == {"string", "date", "time", "datetime", "json", "simple_array"}

SpecialFlags == {"isVirtual", "isParentId", "isDiscriminator",
                 "isUpdateDate", "isVersion", "isCreateDate"}

Column(propertyName, embeddedProperty, type, local, flags) ==
    [propertyName        |-> propertyName,
     embeddedProperty    |-> embeddedProperty,
     isInEmbedded        |-> embeddedProperty # "",
     type                |-> type,
     loadInLocalTimezone |-> local,
     isVirtual           |-> "isVirtual" \in flags,
     isParentId          |-> "isParentId" \in flags,
     isDiscriminator     |-> "isDiscriminator" \in flags,
     isUpdateDate        |-> "isUpdateDate" \in flags,
     isVersion           |-> "isVersion" \in flags,
     isCreateDate        |-> "isCreateDate" \in flags]

Relation(propertyName, name, m2o, o2o, o2m, m2m, owning) ==
    [propertyName |-> propertyName,
     name         |-> name,
     isManyToOne  |-> m2o,
     isOneToOne   |-> o2o,
     isOneToMany  |-> o2m,
     isManyToMany |-> m2m,
     isOwning     |-> owning]

EntityMetadata(columns, relations) ==
    [allColumns |-> columns, allRelations |-> relations]

\* column.getEntityValue(entity)
GetEntityValue(column, entity) ==
    IF column.isInEmbedded
    THEN IF ~IsSet(Prop(entity, "", column.embeddedProperty))
         THEN Undefined
         ELSE Prop(entity, column.embeddedProperty, column.propertyName)
    ELSE Prop(entity, "", column.propertyName)

\* the relations that have a join column
RelationsWithJoinColumns(md) ==
    SelectSeq(md.allRelations,
              LAMBDA r : r.isManyToOne \/ (r.isOneToOne /\ r.isOwning))

\* metadata.hasRelationWithDbName(dbName)
HasRelationWithDbName(md, dbName) ==
    \E i \in DOMAIN RelationsWithJoinColumns(md) :
        RelationsWithJoinColumns(md)[i].name = dbName

\* metadata.findRelationWithDbName(dbName)
FindRelationWithDbName(md, dbName) ==
    LET rs == RelationsWithJoinColumns(md)
        i  == CHOOSE j \in DOMAIN rs :
                  /\ rs[j].name = dbName
                  /\ \A h \in DOMAIN rs : rs[h].name = dbName => j <= h
    IN  rs[i]

\* relation.inverseEntityMetadata.getEntityIdMixedMap(related)
GetEntityIdMixedMap(related) ==
    CASE related.k = "Entity" /\ related.tag = "single"    -> Num(related.v)
      [] related.k = "Entity" /\ related.tag = "composite" -> IdMap("fresh", related.v)
      [] OTHER -> Undefined

\* ---------------------------------------------------------------------------
\* Value normalizer (DataTransformationUtils, JSON.stringify)
\* ---------------------------------------------------------------------------

NormalizationError == Val("error", "", "ValueNormalizationError", 0)

IsError(x) == x.k = "error"

\* a Date or a date string converts; null and undefined pass through
MixedDateTo(fmt, x) ==
    CASE ~IsSet(x)       -> x
      [] x.k = "Date"    -> Str(fmt, x.v)
      [] x.k = "string"  -> IF fmt \in {"date", "time"} THEN x ELSE Str(fmt, x.v)
      [] OTHER           -> NormalizationError

MixedDateToDateString(x) == MixedDateTo("date", x)

MixedDateToTimeString(x) == MixedDateTo("time", x)

MixedDateToDatetimeString(x) == MixedDateTo("datetime", x)

MixedDateToUtcDatetimeString(x) == MixedDateTo("utcdatetime", x)

SimpleArrayToString(x) ==
    CASE ~IsSet(x)       -> x
      [] x.k = "Array"   -> Str("simple_array", x.v)
      [] x.k = "string"  -> x
      [] OTHER           -> NormalizationError

\* JSON.stringify(x) of a value that is neither null nor undefined: the text
\* keeps the type and the content of the value, not its reference
JsonStringify(x) == Str("json:" \o x.k \o ":" \o x.tag, x.v)

\* ---------------------------------------------------------------------------
\* Diff engine
\* ---------------------------------------------------------------------------

\* the normalization of both values before the comparison
NormalizeValues(column, entityValue, databaseValue) ==
    IF ~IsSet(entityValue)
    THEN [entityValue |-> entityValue, databaseValue |-> databaseValue]
    ELSE IF column.type = "date"
    THEN [entityValue   |-> MixedDateToDateString(entityValue),
          databaseValue |-> databaseValue]
    ELSE IF column.type = "time"
    THEN [entityValue   |-> MixedDateToTimeString(entityValue),
          databaseValue |-> databaseValue]
    ELSE IF column.type = "datetime"
    THEN IF column.loadInLocalTimezone
         THEN [entityValue   |-> MixedDateToDatetimeString(entityValue),
               databaseValue |-> MixedDateToDatetimeString(databaseValue)]
         ELSE [entityValue   |-> MixedDateToUtcDatetimeString(entityValue),
               databaseValue |-> MixedDateToUtcDatetimeString(databaseValue)]
    ELSE IF column.type = "json"
    THEN [entityValue   |-> JsonStringify(entityValue),
          databaseValue |-> IF IsSet(databaseValue)
                            THEN JsonStringify(databaseValue)
                            ELSE databaseValue]
    ELSE IF column.type = "simple_array"
    THEN [entityValue   |-> SimpleArrayToString(entityValue),
          databaseValue |-> SimpleArrayToString(databaseValue)]
    ELSE [entityValue |-> entityValue, databaseValue |-> databaseValue]

\* the column callback without the isVersion test
ColumnFilterDiffsVersion(md, entity, dbEntity, column) ==
    LET n == NormalizeValues(column, GetEntityValue(column, entity),
                                     GetEntityValue(column, dbEntity))
    IN  IF IsError(n.entityValue) \/ IsError(n.databaseValue)
        THEN "ValueNormalizationError"
        ELSE IF ~column.isInEmbedded
                /\ Prop(entity, "", column.propertyName) = Undefined
        THEN "false"
        ELSE IF column.isInEmbedded
                /\ Prop(entity, "", column.embeddedProperty) = Undefined
        THEN "false"
        ELSE IF column.isInEmbedded
                /\ Prop(entity, "", column.embeddedProperty) = Null
        THEN "TypeError"
        ELSE IF column.isInEmbedded
                /\ Prop(entity, column.embeddedProperty, column.propertyName) = Undefined
        THEN "false"
        ELSE IF \/ column.isVirtual
                \/ column.isParentId
                \/ column.isDiscriminator
                \/ column.isUpdateDate
                \/ column.isCreateDate
                \/ StrictEq(n.entityValue, n.databaseValue)
        THEN "false"
        ELSE IF /\ ~column.isInEmbedded
                /\ HasRelationWithDbName(md, column.propertyName)
                /\ IsSet(Prop(entity, "",
                       FindRelationWithDbName(md, column.propertyName).propertyName))
        THEN "false"
        ELSE "true"

\* the column callback without the filter of the relational columns
ColumnFilterKeepsRelational(md, entity, dbEntity, column) ==
    LET n == NormalizeValues(column, GetEntityValue(column, entity),
                                     GetEntityValue(column, dbEntity))
    IN  IF IsError(n.entityValue) \/ IsError(n.databaseValue)
        THEN "ValueNormalizationError"
        ELSE IF ~column.isInEmbedded
                /\ Prop(entity, "", column.propertyName) = Undefined
        THEN "false"
        ELSE IF column.isInEmbedded
                /\ Prop(entity, "", column.embeddedProperty) = Undefined
        THEN "false"
        ELSE IF column.isInEmbedded
                /\ Prop(entity, "", column.embeddedProperty) = Null
        THEN "TypeError"
        ELSE IF column.isInEmbedded
                /\ Prop(entity, column.embeddedProperty, column.propertyName) = Undefined
        THEN "false"
        ELSE IF \/ column.isVirtual
                \/ column.isParentId
                \/ column.isDiscriminator
                \/ column.isUpdateDate
                \/ column.isVersion
                \/ column.isCreateDate
                \/ StrictEq(n.entityValue, n.databaseValue)
        THEN "false"
        ELSE "true"

\* the callback of allColumns.filter: "true", "false", or the error thrown
ColumnFilter(md, entity, dbEntity, column) ==
    LET n == NormalizeValues(column, GetEntityValue(column, entity),
                                     GetEntityValue(column, dbEntity))
    IN  IF IsError(n.entityValue) \/ IsError(n.databaseValue)
        THEN "ValueNormalizationError"
        ELSE IF ~column.isInEmbedded
                /\ Prop(entity, "", column.propertyName) = Undefined
        THEN "false"
        ELSE IF column.isInEmbedded
                /\ Prop(entity, "", column.embeddedProperty) = Undefined
        THEN "false"
        ELSE IF column.isInEmbedded
                /\ Prop(entity, "", column.embeddedProperty) = Null
        THEN "TypeError"
        ELSE IF column.isInEmbedded
                /\ Prop(entity, column.embeddedProperty, column.propertyName) = Undefined
        THEN "false"
        ELSE IF \/ column.isVirtual
                \/ column.isParentId
                \/ column.isDiscriminator
                \/ column.isUpdateDate
                \/ column.isVersion
                \/ column.isCreateDate
                \/ StrictEq(n.entityValue, n.databaseValue)
        THEN "false"
        ELSE IF /\ ~column.isInEmbedded
                /\ HasRelationWithDbName(md, column.propertyName)
                /\ IsSet(Prop(entity, "",
                       FindRelationWithDbName(md, column.propertyName).propertyName))
        THEN "false"
        ELSE "true"

\* buildDiffColumns(): threw is "none" and value the filtered columns, or
\* threw is the error of the first column whose callback throws
BuildDiffColumns(md, entity, dbEntity) ==
    LET cols    == md.allColumns
        res     == [i \in DOMAIN cols |-> ColumnFilter(md, entity, dbEntity, cols[i])]
        failing == {i \in DOMAIN cols : res[i] \notin {"true", "false"}}
    IN  IF failing # {}
        THEN [threw |-> res[CHOOSE i \in failing : \A j \in failing : i <= j],
              value |-> <<>>]
        ELSE [threw |-> "none",
              value |-> SelectSeq(cols,
                            LAMBDA c : ColumnFilter(md, entity, dbEntity, c) = "true")]

\* the relation callback taking every one-to-one relation, owning or not
RelationFilterAnyOneToOne(entity, dbEntity, relation) ==
    IF ~relation.isManyToOne /\ ~relation.isOneToOne
    THEN FALSE
    ELSE LET updatedEntityRelationId ==
                 IF InstanceOfObject(Prop(entity, "", relation.propertyName))
                 THEN GetEntityIdMixedMap(Prop(entity, "", relation.propertyName))
                 ELSE Prop(entity, "", relation.propertyName)
             dbEntityRelationId == Prop(dbEntity, "", relation.name)
         IN  IF updatedEntityRelationId = Undefined
             THEN FALSE
             ELSE IF ~IsSet(updatedEntityRelationId) /\ ~IsSet(dbEntityRelationId)
             THEN FALSE
             ELSE ~StrictEq(updatedEntityRelationId, dbEntityRelationId)

\* the callback of allRelations.filter
RelationFilter(entity, dbEntity, relation) ==
    IF ~relation.isManyToOne /\ ~(relation.isOneToOne /\ relation.isOwning)
    THEN FALSE
    ELSE LET updatedEntityRelationId ==
                 IF InstanceOfObject(Prop(entity, "", relation.propertyName))
                 THEN GetEntityIdMixedMap(Prop(entity, "", relation.propertyName))
                 ELSE Prop(entity, "", relation.propertyName)
             dbEntityRelationId == Prop(dbEntity, "", relation.name)
         IN  IF updatedEntityRelationId = Undefined
             THEN FALSE
             ELSE IF ~IsSet(updatedEntityRelationId) /\ ~IsSet(dbEntityRelationId)
             THEN FALSE
             ELSE ~StrictEq(updatedEntityRelationId, dbEntityRelationId)

\* buildDiffRelationalColumns()
BuildDiffRelationalColumns(md, entity, dbEntity) ==
    SelectSeq(md.allRelations, LAMBDA r : RelationFilter(entity, dbEntity, r))

\* ---------------------------------------------------------------------------
\* Subject: accessors
\* ---------------------------------------------------------------------------

hasEntity == Truthy(persistEntity)

hasDatabaseEntity == Truthy(databaseEntity)

mustBeInserted == canBeInserted /\ ~hasDatabaseEntity

mustBeUpdated == canBeUpdated /\ (Len(diffColumns) > 0 \/ Len(diffRelations) > 0)

\* validate() without its insert-versus-update check
ValidateErrorNoInsertUpdate(inserted, updated, removed) ==
    IF inserted /\ removed THEN "RemovedAlsoInserted"
    ELSE IF updated /\ removed THEN "RemovedAlsoUpdated"
    ELSE "none"

\* validate() without its insert-versus-remove check
ValidateErrorNoInsertRemove(inserted, updated, removed) ==
    IF updated /\ removed THEN "RemovedAlsoUpdated"
    ELSE IF inserted /\ updated THEN "InsertedAlsoUpdated"
    ELSE "none"

\* validate(): the error it throws, "none" when it returns
ValidateError(inserted, updated, removed) ==
    IF inserted /\ removed THEN "RemovedAlsoInserted"
    ELSE IF updated /\ removed THEN "RemovedAlsoUpdated"
    ELSE IF inserted /\ updated THEN "InsertedAlsoUpdated"
    ELSE "none"

\* ---------------------------------------------------------------------------
\* Subject: operations
\* ---------------------------------------------------------------------------

\* new Subject(metadata, entity, databaseEntity)
Constructor(md, entity, dbEntity) ==
    /\ metadata = md
    /\ persistEntity = entity
    /\ databaseEntity = dbEntity
    /\ canBeInserted = FALSE
    /\ canBeUpdated = FALSE
    /\ mustBeRemoved = FALSE
    /\ diffColumns = <<>>
    /\ diffRelations = <<>>
    /\ relationUpdates = <<>>
    /\ junctionInserts = <<>>
    /\ junctionRemoves = <<>>
    /\ newlyGeneratedId = Undefined
    /\ parentGeneratedId = Undefined
    /\ treeLevel = Undefined
    /\ lastOp = "new"
    /\ thrown = "none"

\* the setter computing the column diff only
SetDatabaseEntityColumnsOnly(dbEntity) ==
    /\ databaseEntity' = dbEntity
    /\ lastOp' = "setDatabaseEntity"
    /\ IF hasEntity /\ Truthy(dbEntity)
       THEN LET cols == BuildDiffColumns(metadata, persistEntity, dbEntity)
            IN  IF cols.threw # "none"
                THEN /\ thrown' = cols.threw
                     /\ UNCHANGED <<diffColumns, diffRelations>>
                ELSE /\ thrown' = "none"
                     /\ diffColumns' = cols.value
                     /\ UNCHANGED diffRelations
       ELSE /\ thrown' = "none"
            /\ UNCHANGED <<diffColumns, diffRelations>>
    /\ UNCHANGED pending
    /\ UNCHANGED <<metadata, persistEntity, canBeInserted, canBeUpdated, mustBeRemoved>>

\* the setter forgetting the generated id of the Subject
SetDatabaseEntityResetsGeneratedId(dbEntity) ==
    /\ databaseEntity' = dbEntity
    /\ lastOp' = "setDatabaseEntity"
    /\ IF hasEntity /\ Truthy(dbEntity)
       THEN LET cols == BuildDiffColumns(metadata, persistEntity, dbEntity)
            IN  IF cols.threw # "none"
                THEN /\ thrown' = cols.threw
                     /\ UNCHANGED <<diffColumns, diffRelations>>
                ELSE /\ thrown' = "none"
                     /\ diffColumns' = cols.value
                     /\ diffRelations' =
                            BuildDiffRelationalColumns(metadata, persistEntity, dbEntity)
       ELSE /\ thrown' = "none"
            /\ UNCHANGED <<diffColumns, diffRelations>>
    /\ newlyGeneratedId' = Undefined
    /\ UNCHANGED <<relationUpdates, junctionInserts, junctionRemoves,
                   parentGeneratedId, treeLevel>>
    /\ UNCHANGED <<metadata, persistEntity, canBeInserted, canBeUpdated, mustBeRemoved>>

\* subject.databaseEntity = dbEntity
SetDatabaseEntity(dbEntity) ==
    /\ databaseEntity' = dbEntity
    /\ lastOp' = "setDatabaseEntity"
    /\ IF hasEntity /\ Truthy(dbEntity)
       THEN LET cols == BuildDiffColumns(metadata, persistEntity, dbEntity)
            IN  IF cols.threw # "none"
                THEN /\ thrown' = cols.threw
                     /\ UNCHANGED <<diffColumns, diffRelations>>
                ELSE /\ thrown' = "none"
                     /\ diffColumns' = cols.value
                     /\ diffRelations' =
                            BuildDiffRelationalColumns(metadata, persistEntity, dbEntity)
       ELSE /\ thrown' = "none"
            /\ UNCHANGED <<diffColumns, diffRelations>>
    /\ UNCHANGED pending
    /\ UNCHANGED <<metadata, persistEntity, canBeInserted, canBeUpdated, mustBeRemoved>>

\* subject.canBeInserted = b
SetCanBeInserted(b) ==
    /\ canBeInserted' = b
    /\ lastOp' = "assign"
    /\ thrown' = "none"
    /\ UNCHANGED pending
    /\ UNCHANGED <<metadata, persistEntity, databaseEntity, canBeUpdated,
                   mustBeRemoved, diffColumns, diffRelations>>

\* subject.canBeUpdated = b
SetCanBeUpdated(b) ==
    /\ canBeUpdated' = b
    /\ lastOp' = "assign"
    /\ thrown' = "none"
    /\ UNCHANGED pending
    /\ UNCHANGED <<metadata, persistEntity, databaseEntity, canBeInserted,
                   mustBeRemoved, diffColumns, diffRelations>>

\* subject.mustBeRemoved = b
SetMustBeRemoved(b) ==
    /\ mustBeRemoved' = b
    /\ lastOp' = "assign"
    /\ thrown' = "none"
    /\ UNCHANGED pending
    /\ UNCHANGED <<metadata, persistEntity, databaseEntity, canBeInserted,
                   canBeUpdated, diffColumns, diffRelations>>

\* subject.validate()
Validate ==
    /\ lastOp' = "validate"
    /\ thrown' = ValidateError(mustBeInserted, mustBeUpdated, mustBeRemoved)
    /\ UNCHANGED pending
    /\ UNCHANGED <<metadata, persistEntity, databaseEntity, canBeInserted,
                   canBeUpdated, mustBeRemoved, diffColumns, diffRelations>>

\* subject.entity (getter)
GetEntity ==
    /\ lastOp' = "getEntity"
    /\ thrown' = IF ~Truthy(persistEntity) THEN "PersistenceEntityNotSet" ELSE "none"
    /\ UNCHANGED pending
    /\ UNCHANGED <<metadata, persistEntity, databaseEntity, canBeInserted,
                   canBeUpdated, mustBeRemoved, diffColumns, diffRelations>>

\* the getter of the database entity testing the desired entity instead
GetDatabaseEntityTestsEntity ==
    /\ lastOp' = "getDatabaseEntity"
    /\ thrown' = IF ~Truthy(persistEntity) THEN "DatabaseEntityNotSet" ELSE "none"
    /\ UNCHANGED pending
    /\ UNCHANGED <<metadata, persistEntity, databaseEntity, canBeInserted,
                   canBeUpdated, mustBeRemoved, diffColumns, diffRelations>>

\* subject.databaseEntity (getter)
GetDatabaseEntity ==
    /\ lastOp' = "getDatabaseEntity"
    /\ thrown' = IF ~Truthy(databaseEntity) THEN "DatabaseEntityNotSet" ELSE "none"
    /\ UNCHANGED pending
    /\ UNCHANGED <<metadata, persistEntity, databaseEntity, canBeInserted,
                   canBeUpdated, mustBeRemoved, diffColumns, diffRelations>>

\* subject.diffColumns = columns
SetDiffColumns(columns) ==
    /\ diffColumns' = columns
    /\ lastOp' = "assign"
    /\ thrown' = "none"
    /\ UNCHANGED pending
    /\ UNCHANGED <<metadata, persistEntity, databaseEntity, canBeInserted,
                   canBeUpdated, mustBeRemoved, diffRelations>>

\* subject.diffRelations = relations
SetDiffRelations(relations) ==
    /\ diffRelations' = relations
    /\ lastOp' = "assign"
    /\ thrown' = "none"
    /\ UNCHANGED pending
    /\ UNCHANGED <<metadata, persistEntity, databaseEntity, canBeInserted,
                   canBeUpdated, mustBeRemoved, diffColumns>>

\* subject.relationUpdates = updates
SetRelationUpdates(updates) ==
    /\ relationUpdates' = updates
    /\ lastOp' = "assign"
    /\ thrown' = "none"
    /\ UNCHANGED <<junctionInserts, junctionRemoves, newlyGeneratedId,
                   parentGeneratedId, treeLevel>>
    /\ UNCHANGED <<metadata, persistEntity, databaseEntity, canBeInserted,
                   canBeUpdated, mustBeRemoved, diffColumns, diffRelations>>

\* subject.junctionInserts = inserts
SetJunctionInserts(inserts) ==
    /\ junctionInserts' = inserts
    /\ lastOp' = "assign"
    /\ thrown' = "none"
    /\ UNCHANGED <<relationUpdates, junctionRemoves, newlyGeneratedId,
                   parentGeneratedId, treeLevel>>
    /\ UNCHANGED <<metadata, persistEntity, databaseEntity, canBeInserted,
                   canBeUpdated, mustBeRemoved, diffColumns, diffRelations>>

\* subject.junctionRemoves = removes
SetJunctionRemoves(removes) ==
    /\ junctionRemoves' = removes
    /\ lastOp' = "assign"
    /\ thrown' = "none"
    /\ UNCHANGED <<relationUpdates, junctionInserts, newlyGeneratedId,
                   parentGeneratedId, treeLevel>>
    /\ UNCHANGED <<metadata, persistEntity, databaseEntity, canBeInserted,
                   canBeUpdated, mustBeRemoved, diffColumns, diffRelations>>

\* subject.newlyGeneratedId = id
SetNewlyGeneratedId(id) ==
    /\ newlyGeneratedId' = id
    /\ lastOp' = "assign"
    /\ thrown' = "none"
    /\ UNCHANGED <<relationUpdates, junctionInserts, junctionRemoves,
                   parentGeneratedId, treeLevel>>
    /\ UNCHANGED <<metadata, persistEntity, databaseEntity, canBeInserted,
                   canBeUpdated, mustBeRemoved, diffColumns, diffRelations>>

\* subject.parentGeneratedId = id
SetParentGeneratedId(id) ==
    /\ parentGeneratedId' = id
    /\ lastOp' = "assign"
    /\ thrown' = "none"
    /\ UNCHANGED <<relationUpdates, junctionInserts, junctionRemoves,
                   newlyGeneratedId, treeLevel>>
    /\ UNCHANGED <<metadata, persistEntity, databaseEntity, canBeInserted,
                   canBeUpdated, mustBeRemoved, diffColumns, diffRelations>>

\* subject.treeLevel = level
SetTreeLevel(level) ==
    /\ treeLevel' = level
    /\ lastOp' = "assign"
    /\ thrown' = "none"
    /\ UNCHANGED <<relationUpdates, junctionInserts, junctionRemoves,
                   newlyGeneratedId, parentGeneratedId>>
    /\ UNCHANGED <<metadata, persistEntity, databaseEntity, canBeInserted,
                   canBeUpdated, mustBeRemoved, diffColumns, diffRelations>>

\* ---------------------------------------------------------------------------
\* Inputs: the entities a caller can pass for a given metadata
\* ---------------------------------------------------------------------------

\* the values a column of each type is given, and one the type cannot convert
ColumnInputs(column, site) ==
    {Undefined, Null} \cup
    CASE column.type = "string" ->
             {Num(p) : p \in Payloads}
      [] column.type \in {"date", "time"} ->
             {DateObj(site, p) : p \in Payloads}
             \cup {Str(column.type, 1), Num(1)}
      [] column.type = "datetime" ->
             {DateObj(site, p) : p \in Payloads}
             \cup {Str("utcdatetime", 1), Num(1)}
      [] column.type = "json" ->
             {PlainObj(site, p) : p \in Payloads} \cup {Num(1)}
      [] column.type = "simple_array" ->
             {ArrayObj(site, p) : p \in Payloads}
             \cup {Str("simple_array", 1), Num(1)}

\* what the desired entity holds under a relation property: nothing, null,
\* a bare id, or a related entity with a single, a composite or no id
RelationInputs ==
    {Undefined, Null, Num(1)}
    \cup {RelatedEntity("single", p) : p \in Payloads}
    \cup {RelatedEntity("composite", 1), RelatedEntity("new", 0)}

\* what a database entity holds under relation.name: the raw foreign key
RelationIdInputs ==
    {Undefined, Null, IdMap("database", 1)}
    \cup {Num(p) : p \in Payloads}

Range(seq) == {seq[i] : i \in DOMAIN seq}

\* the properties of an entity of the given metadata on the given side, each
\* with the values it can be given
Slots(md, site) ==
    LET cols == Range(md.allColumns)
        rels == Range(md.allRelations)
        relKey(r) == IF site = "entity" THEN r.propertyName ELSE r.name
        keys == {<<c.embeddedProperty, c.propertyName>> : c \in cols}
                \cup {<<"", c.embeddedProperty>> : c \in {x \in cols : x.isInEmbedded}}
                \cup {<<"", relKey(r)>> : r \in rels}
    IN  [key \in keys |->
            UNION {ColumnInputs(c, site) :
                      c \in {x \in cols : <<x.embeddedProperty, x.propertyName>> = key}}
            \cup (IF \E c \in cols : c.isInEmbedded /\ <<"", c.embeddedProperty>> = key
                  THEN {Undefined, Null, Embedded(site)} ELSE {})
            \cup (IF \E r \in rels : <<"", relKey(r)>> = key
                  THEN IF site = "entity" THEN RelationInputs ELSE RelationIdInputs
                  ELSE {})]

Objects(md, site) ==
    LET slots == Slots(md, site)
        all   == UNION {slots[key] : key \in DOMAIN slots}
    IN  {Entity(f) : f \in
            {g \in [DOMAIN slots -> all] :
                \A key \in DOMAIN slots :
                    /\ g[key] \in slots[key]
                    /\ (key[1] # "" /\ g[<<"", key[1]>>] # Embedded(site))
                           => g[key] = Undefined}}

\* the desired entities and the database entities of the given metadata
Entities(md) == Objects(md, "entity")

DatabaseEntities(md) == Objects(md, "database")

\* ---------------------------------------------------------------------------
\* Metadata of the specifications
\* ---------------------------------------------------------------------------

\* a post with a title and an author
PostMetadata ==
    EntityMetadata(<<Column("title", "", "string", FALSE, {})>>,
                   <<Relation("author", "author", TRUE, FALSE, FALSE, FALSE, TRUE)>>)

\* the flags of a column: none, each one alone, all of them
FlagSets == {{}, SpecialFlags} \cup {{flag} : flag \in SpecialFlags}

\* one column that is no foreign key, of every type, embedded or not
ColumnMetadatas ==
    {EntityMetadata(<<Column("favorites", emb, type, local, flags)>>, <<>>) :
        emb \in {"", "counters"}, type \in ColumnTypes, local \in BOOLEAN,
        flags \in FlagSets}

\* the counters of a post: two columns embedded under one property
CountersMetadata ==
    EntityMetadata(<<Column("likes", "counters", "string", FALSE, {}),
                     Column("favorites", "counters", "string", FALSE, {})>>,
                   <<>>)

\* a relation of every flag combination, and the column of its foreign key
RelationMetadatas ==
    {EntityMetadata(<<Column("authorId", "", "string", FALSE, {})>>,
                    <<Relation("author", "authorId", m2o, o2o, o2m, m2m, owning)>>) :
        m2o \in BOOLEAN, o2o \in BOOLEAN, o2m \in BOOLEAN, m2m \in BOOLEAN,
        owning \in BOOLEAN}

\* a title alone, and an author alone
TitleMetadata ==
    EntityMetadata(PostMetadata.allColumns, <<>>)

AuthorMetadata ==
    EntityMetadata(<<>>, PostMetadata.allRelations)

\* what the executor writes into the pending properties of a Subject
RelationUpdateInputs ==
    {<<>>, <<[relation |-> PostMetadata.allRelations[1], value |-> Null]>>}

JunctionInsertInputs ==
    {<<>>, <<[relation |-> PostMetadata.allRelations[1],
              junctionEntities |-> <<RelatedEntity("single", 1)>>]>>}

JunctionRemoveInputs ==
    {<<>>, <<[relation |-> PostMetadata.allRelations[1],
              junctionRelationIds |-> <<Num(1)>>]>>}

GeneratedIdInputs == {Undefined, Num(1)}

TreeLevelInputs == {Undefined, Num(1)}

\* ---------------------------------------------------------------------------
\* Specifications
\* ---------------------------------------------------------------------------

Construct(mds) ==
    \E md \in mds :
        \E entity \in Entities(md) \cup {Absent},
           dbEntity \in DatabaseEntities(md) \cup {Absent} :
            Constructor(md, entity, dbEntity)

Init == Construct({PostMetadata})

InitColumns == Construct({md \in ColumnMetadatas :
                   md.allColumns[1].loadInLocalTimezone
                       => md.allColumns[1].type = "datetime"}
                         \cup {CountersMetadata})

InitRelations == Construct(RelationMetadatas)

Next ==
    \/ \E dbEntity \in DatabaseEntities(metadata) \cup {Absent} :
           SetDatabaseEntity(dbEntity)
    \/ \E b \in BOOLEAN : SetCanBeInserted(b)
    \/ \E b \in BOOLEAN : SetCanBeUpdated(b)
    \/ \E b \in BOOLEAN : SetMustBeRemoved(b)
    \/ Validate

\* the assignments of a database entity alone: the flags take no part in a diff
NextDiff ==
    \E dbEntity \in DatabaseEntities(metadata) \cup {Absent} :
        SetDatabaseEntity(dbEntity)

\* the reads of the two entities, between assignments
NextRead ==
    \/ \E dbEntity \in DatabaseEntities(metadata) \cup {Absent} :
           SetDatabaseEntity(dbEntity)
    \/ \E b \in BOOLEAN : SetCanBeInserted(b)
    \/ \E b \in BOOLEAN : SetCanBeUpdated(b)
    \/ \E b \in BOOLEAN : SetMustBeRemoved(b)
    \/ GetEntity
    \/ GetDatabaseEntity

InitFrame == Construct({TitleMetadata, AuthorMetadata})

\* the assignments to the public properties, around the setter
NextFrame ==
    \/ \E dbEntity \in DatabaseEntities(metadata) \cup {Absent} :
           SetDatabaseEntity(dbEntity)
    \/ \E b \in BOOLEAN : SetCanBeInserted(b)
    \/ \E b \in BOOLEAN : SetCanBeUpdated(b)
    \/ \E b \in BOOLEAN : SetMustBeRemoved(b)
    \/ \E columns \in {<<>>, metadata.allColumns} : SetDiffColumns(columns)
    \/ \E relations \in {<<>>, metadata.allRelations} : SetDiffRelations(relations)
    \/ \E updates \in RelationUpdateInputs : SetRelationUpdates(updates)
    \/ \E inserts \in JunctionInsertInputs : SetJunctionInserts(inserts)
    \/ \E removes \in JunctionRemoveInputs : SetJunctionRemoves(removes)
    \/ \E id \in GeneratedIdInputs : SetNewlyGeneratedId(id)
    \/ \E id \in GeneratedIdInputs : SetParentGeneratedId(id)
    \/ \E level \in TreeLevelInputs : SetTreeLevel(level)

Spec == Init /\ [][Next]_vars

SpecRead == Init /\ [][NextRead]_vars

SpecFrame == InitFrame /\ [][NextFrame]_vars

SpecColumns == InitColumns /\ [][NextDiff]_vars

SpecRelations == InitRelations /\ [][NextDiff]_vars

TypeOK ==
    /\ canBeInserted \in BOOLEAN
    /\ canBeUpdated \in BOOLEAN
    /\ mustBeRemoved \in BOOLEAN
    /\ lastOp \in {"new", "setDatabaseEntity", "assign", "validate",
                   "getEntity", "getDatabaseEntity"}

\* ---------------------------------------------------------------------------
\* Properties
\* ---------------------------------------------------------------------------

\* the last operation was an assignment of a database entity to a Subject
\* that has a desired entity, and it returned
DiffComputed ==
    /\ lastOp = "setDatabaseEntity"
    /\ thrown = "none"
    /\ hasEntity
    /\ hasDatabaseEntity

AtMostOneOperation ==
    /\ ~(mustBeInserted /\ mustBeUpdated)
    /\ ~(mustBeInserted /\ mustBeRemoved)
    /\ ~(mustBeUpdated /\ mustBeRemoved)

ConflictErrors == {"RemovedAlsoInserted", "RemovedAlsoUpdated", "InsertedAlsoUpdated"}

\* C1: validate() returns exactly when at most one of mustBeInserted,
\* mustBeUpdated, mustBeRemoved is true, and throws a conflict error when any
\* two of them are true.
C1_ValidateIffAtMostOne ==
    lastOp = "validate" =>
        /\ (thrown = "none") <=> AtMostOneOperation
        /\ ~AtMostOneOperation => thrown \in ConflictErrors

\* validate() has run on a Subject scheduled for insert and update, not for
\* remove, and has thrown
C1_Witness ==
    /\ lastOp = "validate"
    /\ mustBeInserted /\ mustBeUpdated /\ ~mustBeRemoved
    /\ thrown = "InsertedAlsoUpdated"

\* C2: right after a database entity is assigned to a Subject that has a
\* desired entity, diffColumns is the column diff and diffRelations the
\* relation diff of the desired entity against the assigned database entity.
C2_SetterRecomputesDiff ==
    DiffComputed =>
        /\ diffColumns =
               BuildDiffColumns(metadata, persistEntity, databaseEntity).value
        /\ diffRelations =
               BuildDiffRelationalColumns(metadata, persistEntity, databaseEntity)

\* an assignment has produced a column delta and a relation delta
C2_Witness ==
    /\ DiffComputed
    /\ Len(diffColumns) = 1
    /\ Len(diffRelations) = 1

\* the value of the column is defined on the desired entity
DefinedOnEntity(column) ==
    IF column.isInEmbedded
    THEN /\ Prop(persistEntity, "", column.embeddedProperty) # Undefined
         /\ Prop(persistEntity, column.embeddedProperty, column.propertyName) # Undefined
    ELSE Prop(persistEntity, "", column.propertyName) # Undefined

IsSpecial(column) ==
    \/ column.isVirtual \/ column.isParentId \/ column.isDiscriminator
    \/ column.isUpdateDate \/ column.isVersion \/ column.isCreateDate

Normalized(column) ==
    NormalizeValues(column, GetEntityValue(column, persistEntity),
                            GetEntityValue(column, databaseEntity))

\* the column is the foreign key of a relation that has a join column
IsRelational(column) ==
    ~column.isInEmbedded /\ HasRelationWithDbName(metadata, column.propertyName)

\* the column is defined on the desired entity, is not special, and its two
\* normalized values differ
Differs(column) ==
    /\ DefinedOnEntity(column)
    /\ ~IsSpecial(column)
    /\ Normalized(column).entityValue # Normalized(column).databaseValue

\* C3: a column that is no foreign key of a relation is in the computed
\* diffColumns exactly when its value is defined on the desired entity, it is
\* not a special column, and its normalized desired value differs from its
\* normalized database value; when exactly one such column differs,
\* diffColumns is that column alone.
C3_ColumnDiffIff ==
    DiffComputed =>
        \A column \in Range(metadata.allColumns) :
            ~IsRelational(column) =>
                /\ column \in Range(diffColumns) <=> Differs(column)
                /\ (/\ Differs(column)
                    /\ \A other \in Range(metadata.allColumns) \ {column} :
                           ~IsRelational(other) /\ ~Differs(other))
                       => diffColumns = <<column>>

\* counters {likes: 1, favorites: 2} against {likes: 1, favorites: 1}: the
\* diff is the favorites column alone
C3_Witness ==
    /\ DiffComputed
    /\ metadata = CountersMetadata
    /\ Prop(persistEntity, "counters", "likes") = Num(1)
    /\ Prop(databaseEntity, "counters", "likes") = Num(1)
    /\ Prop(persistEntity, "counters", "favorites") = Num(2)
    /\ Prop(databaseEntity, "counters", "favorites") = Num(1)
    /\ diffColumns = <<metadata.allColumns[2]>>

\* the identifier on the desired side: the mixed identifier of the nested
\* related object, or the bare property value
DesiredId(relation) ==
    IF InstanceOfObject(Prop(persistEntity, "", relation.propertyName))
    THEN GetEntityIdMixedMap(Prop(persistEntity, "", relation.propertyName))
    ELSE Prop(persistEntity, "", relation.propertyName)

\* the identifier on the database side
DatabaseId(relation) == Prop(databaseEntity, "", relation.name)

IsOwningToOne(relation) ==
    relation.isOwning /\ (relation.isManyToOne \/ relation.isOneToOne)

\* C4: an owning many-to-one or one-to-one relation is in the computed
\* diffRelations exactly when the desired identifier is not undefined, the
\* two identifiers are not both null or undefined, and the two identifiers
\* differ, scalar and composite identifiers alike compared by value.
C4_RelationDiffByValue ==
    DiffComputed =>
        \A relation \in Range(metadata.allRelations) :
            IsOwningToOne(relation) =>
                (relation \in Range(diffRelations)
                    <=> /\ DesiredId(relation) # Undefined
                        /\ ~(~IsSet(DesiredId(relation)) /\ ~IsSet(DatabaseId(relation)))
                        /\ ~SameValue(DesiredId(relation), DatabaseId(relation)))

\* every diffable column and every owning relation has the same value on
\* both sides
ValueEqual ==
    /\ \A column \in Range(metadata.allColumns) :
           (DefinedOnEntity(column) /\ ~IsSpecial(column)) =>
               SameValue(Normalized(column).entityValue,
                         Normalized(column).databaseValue)
    /\ \A relation \in Range(metadata.allRelations) :
           IsOwningToOne(relation) =>
               SameValue(DesiredId(relation), DatabaseId(relation))

\* C5: when the desired entity and the database entity are value-equal on
\* every diffable column and every owning relation, then after the database
\* entity is attached both diffs are empty and mustBeUpdated is false.
C5_Idempotence ==
    (DiffComputed /\ ValueEqual) =>
        /\ diffColumns = <<>>
        /\ diffRelations = <<>>
        /\ ~mustBeUpdated

\* the desired entity holds a live related object under the relation
HoldsRelatedObject(relation) ==
    InstanceOfObject(Prop(persistEntity, "", relation.propertyName))

\* the column is the foreign key of the owning relation, under which the
\* desired entity holds a related object
RelationalWithObject(column, relation) ==
    /\ ~column.isInEmbedded
    /\ IsOwningToOne(relation)
    /\ relation.name = column.propertyName
    /\ HoldsRelatedObject(relation)

\* the desired side references another entity than the database side
ReferenceChanged(relation) ==
    /\ ~(~IsSet(DesiredId(relation)) /\ ~IsSet(DatabaseId(relation)))
    /\ ~SameValue(DesiredId(relation), DatabaseId(relation))

\* C6: the column of the foreign key of an owning relation is not in
\* diffColumns when the desired entity holds a related object under the
\* relation, and a changed reference is then in diffRelations: never both
\* deltas, never neither.
C6_ChangedReferenceSurfaces ==
    DiffComputed =>
        \A column \in Range(metadata.allColumns) :
            \A relation \in Range(metadata.allRelations) :
                RelationalWithObject(column, relation)
                => /\ column \notin Range(diffColumns)
                   /\ ReferenceChanged(relation)
                          => relation \in Range(diffRelations)

\* C6 as amended: the column of the foreign key is not in diffColumns when
\* the desired entity holds a related object under the relation, and a
\* changed reference is then in diffRelations when the related object has an
\* identifier.
C6_RelationNotColumn ==
    DiffComputed =>
        \A column \in Range(metadata.allColumns) :
            \A relation \in Range(metadata.allRelations) :
                RelationalWithObject(column, relation)
                => /\ column \notin Range(diffColumns)
                   /\ (DesiredId(relation) # Undefined /\ ReferenceChanged(relation))
                          => relation \in Range(diffRelations)

\* a related object of another id, and a foreign-key property that differs
\* from the database entity too: one relation delta, no column delta
C6_Witness ==
    /\ DiffComputed
    /\ \E relation \in Range(metadata.allRelations) :
           /\ IsOwningToOne(relation)
           /\ HoldsRelatedObject(relation)
           /\ Prop(persistEntity, "", relation.name) = Num(1)
           /\ DatabaseId(relation) = Num(2)
           /\ DesiredId(relation) = Num(1)
           /\ diffRelations = <<relation>>
    /\ diffColumns = <<>>

\* C7: diffRelations holds owning many-to-one and owning one-to-one
\* relations only: never a relation that is non-owning or to-many.
C7_OnlyOwningToOne ==
    \A relation \in Range(diffRelations) :
        /\ relation.isOwning
        /\ relation.isManyToOne \/ relation.isOneToOne
        /\ ~relation.isOneToMany
        /\ ~relation.isManyToMany

\* C7 as amended: diffRelations holds many-to-one relations and owning
\* one-to-one relations only.
C7_OnlyManyToOneOrOwningOneToOne ==
    \A relation \in Range(diffRelations) :
        relation.isManyToOne \/ (relation.isOneToOne /\ relation.isOwning)

\* the diff has taken an owning one-to-one relation that is not many-to-one
C7_Witness ==
    /\ DiffComputed
    /\ Len(diffRelations) = 1
    /\ diffRelations[1].isOneToOne /\ diffRelations[1].isOwning
    /\ ~diffRelations[1].isManyToOne

\* C8: whenever the Subject has a desired entity and a database entity,
\* diffColumns and diffRelations are the diffs of the two.
C8_DiffWheneverBoth ==
    (hasEntity /\ hasDatabaseEntity) =>
        /\ diffColumns =
               BuildDiffColumns(metadata, persistEntity, databaseEntity).value
        /\ diffRelations =
               BuildDiffRelationalColumns(metadata, persistEntity, databaseEntity)

\* C9: validate() throws on a Subject that has canBeInserted and
\* mustBeRemoved set.
C9_InsertableRemovedFails ==
    (lastOp = "validate" /\ canBeInserted /\ mustBeRemoved) => thrown # "none"

\* C9 as amended: validate() throws a conflict error on a Subject that has
\* canBeInserted and mustBeRemoved set and has no database entity.
C9_InsertedRemovedFails ==
    (lastOp = "validate" /\ canBeInserted /\ mustBeRemoved /\ ~hasDatabaseEntity)
        => thrown \in ConflictErrors

\* validate() has run on a Subject to insert and to remove, not to update
C9_Witness ==
    /\ lastOp = "validate"
    /\ canBeInserted /\ mustBeRemoved /\ ~hasDatabaseEntity
    /\ ~mustBeUpdated
    /\ thrown = "RemovedAlsoInserted"

\* C10: a Subject without a database entity has an empty diffColumns.
C10_NoDatabaseEntityNoDiff ==
    ~hasDatabaseEntity => diffColumns = <<>>

\* the fields of the Subject
subject == <<metadata, persistEntity, databaseEntity, canBeInserted,
             canBeUpdated, mustBeRemoved, diffColumns, diffRelations, pending>>

\* C11: reading the desired entity throws exactly when none was set, reading
\* the database entity throws exactly when none was set, hasEntity and
\* hasDatabaseEntity are true exactly when the read returns, and a read
\* leaves the Subject unchanged.
C11_ReadFailsIffNotSet ==
    /\ [](lastOp = "getEntity" =>
            /\ (thrown = "PersistenceEntityNotSet") <=> (persistEntity = Absent)
            /\ (thrown = "none") <=> hasEntity
            /\ thrown \in {"none", "PersistenceEntityNotSet"})
    /\ [](lastOp = "getDatabaseEntity" =>
            /\ (thrown = "DatabaseEntityNotSet") <=> (databaseEntity = Absent)
            /\ (thrown = "none") <=> hasDatabaseEntity
            /\ thrown \in {"none", "DatabaseEntityNotSet"})
    /\ [][lastOp' \in {"getEntity", "getDatabaseEntity"} => UNCHANGED subject]_vars

\* the database entity was read and the read threw, on a Subject that has a
\* desired entity
C11_Witness ==
    /\ lastOp = "getDatabaseEntity"
    /\ thrown = "DatabaseEntityNotSet"
    /\ hasEntity
    /\ ~hasDatabaseEntity

\* C12: when the normalization of a value fails while a database entity is
\* assigned, the Subject is left as it was before the assignment: no database
\* entity is recorded and both diffs keep their contents.
C12_FailedAssignmentLeavesSubject ==
    [][(lastOp' = "setDatabaseEntity" /\ thrown' = "ValueNormalizationError")
          => UNCHANGED subject]_vars

\* C13: mustBeInserted and mustBeUpdated are never true in the same state.
C13_NeverInsertedAndUpdated ==
    ~(mustBeInserted /\ mustBeUpdated)

\* C14: an assignment of a database entity leaves the flags, the desired
\* entity and the pending properties unchanged, and on a Subject without a
\* desired entity it leaves diffColumns and diffRelations unchanged too.
C14_SetterFrame ==
    [][lastOp' = "setDatabaseEntity" =>
          /\ UNCHANGED <<canBeInserted, canBeUpdated, mustBeRemoved,
                         persistEntity, relationUpdates, junctionInserts,
                         junctionRemoves, newlyGeneratedId, parentGeneratedId,
                         treeLevel>>
          /\ ~hasEntity => UNCHANGED <<diffColumns, diffRelations>>]_vars

\* a database entity was assigned, and a diff computed, on a Subject whose
\* flags and pending properties are all set
C14_Witness ==
    /\ DiffComputed
    /\ diffRelations # <<>>
    /\ canBeInserted /\ canBeUpdated /\ mustBeRemoved
    /\ relationUpdates # <<>> /\ junctionInserts # <<>> /\ junctionRemoves # <<>>
    /\ newlyGeneratedId = Num(1) /\ parentGeneratedId = Num(1)
    /\ treeLevel = Num(1)

====
